---- MODULE Spec2Model ----
(***************************************************************************)
(* Model of the bank-system transfer pipeline.                             *)
(*                                                                         *)
(*  - api-service: TransactionService.execute_transfer with the            *)
(*    AccountService checks, one ledger (SQL) transaction per request,     *)
(*    and the KafkaProducer that publishes after the commit;               *)
(*  - consumer-service: TransactionConsumer.consume_messages with the      *)
(*    TransactionProcessor and its in-process idempotency set.             *)
(*                                                                         *)
(* Money is an integer count of 0.01 units (DECIMAL(15,2)).                *)
(*                                                                         *)
(* The store is MySQL/InnoDB at its default isolation: a plain SELECT is   *)
(* a non-locking read of the committed snapshot, an UPDATE takes the row   *)
(* lock until the transaction ends, and an UPDATE writes the value the     *)
(* session computed (an absolute balance, not a delta).                    *)
(***************************************************************************)
EXTENDS Integers, Sequences, FiniteSets, TLC

\* ------------------------------------------------------------- bounds
NumProcs == 2
NumTxnIds == 2
MaxRebalances == 1
MaxEvents == 2

\* -------------------------------------------------- program constants
MinTxnId == 100000
SystemMaxAmount == 1000000000
VipDailyLimit == 100000000
BusinessDailyLimit == 50000000
RegularDailyLimit == 10000000
MAX_RETRIES == 3

\* ------------------------------------------------------ the data set
Procs == 1..NumProcs
TxnIds == MinTxnId..(MinTxnId + NumTxnIds - 1)

\* The accounts table a run starts from. 1 (checking, 1500.00) and 2
\* (business, 8000.00) are the accounts of the transfer scenario; 3 holds
\* 50.00 in another currency; 4 is frozen; 5 is a checking account holding
\* 3,000,000.00; 6 is inactive and 7 closed, both empty.
AccountIds == {1, 2, 3, 4, 5, 6, 7}
InitBalance == <<150000, 800000, 5000, 100000, 300000000, 0, 0>>
InitStatus == <<"active", "active", "active", "frozen", "active", "inactive",
                "closed">>
AccountType == <<"checking", "business", "savings", "vip", "checking",
                 "savings", "checking">>
AccountCurrency == <<"ILS", "ILS", "USD", "ILS", "ILS", "ILS", "ILS">>

\* The requests a client sends: account ids (0 is malformed, 9 names no
\* account), amounts (0.00 and 1000.00) and currencies.
RequestIds == {0, 1, 2, 3, 4, 9}
Amounts == {0, 100000}
Currencies == {"ILS", "USD"}

\* Further requests: 2,000,000.00 out of account 5, above the ceiling of its
\* class; an amount above the system ceiling; a transfer to the inactive
\* account and one out of the closed account.
ExtraRequests ==
    {<<5, 2, 200000000, "ILS">>, <<5, 2, SystemMaxAmount + 1, "ILS">>,
     <<1, 6, 100000, "ILS">>, <<7, 2, 100000, "ILS">>}

Requests == (RequestIds \X RequestIds \X Amounts \X Currencies)
            \cup ExtraRequests

NoTxn == [transaction_id |-> 0]
NoEvent == [event_type |-> "none", transaction_id |-> 0]
NoEffects == [sequence_done |-> 0, ok |-> 0]
NoResult == [transaction_id |-> 0, success |-> FALSE, dispatched |-> FALSE,
             after_ok |-> FALSE, verdict |-> "none"]
NoResponse == [outcome |-> "none", error |-> "", transaction |-> NoTxn]
NoSession == [flushed |-> FALSE, wrote_from |-> FALSE, wrote_to |-> FALSE,
              persistent |-> FALSE]

VARIABLES
    balance,          \* accounts.balance, committed
    acctStatus,       \* accounts.status, committed
    ledger,           \* the committed rows of table transactions
    pc,               \* where each request is in execute_transfer
    txn,              \* the local `transaction` object of each request
    sess,             \* each request's session: what its open transaction holds
    err,              \* the exception a request is unwinding with, "" if none
    response,         \* the last answer execute_transfer gave its caller
    completedTopic,   \* topic completedTransactions
    failedTopic,      \* topic failedTransactions
    consumerStarted,  \* TransactionConsumer.consumer is not None
    running,          \* TransactionConsumer.running
    stopped,          \* TransactionConsumer.stop has been called
    cpc,              \* where consume_messages is
    position,         \* the consumer's fetch position in completedTransactions
    committedOffset,  \* the group's committed offset
    rebalances,       \* rebalances so far
    cur,              \* the message being handled
    processed,        \* TransactionProcessor.processed_transactions
    effects,          \* per transfer id: side-effect runs and successful dispatches
    lastResult        \* what the last process_transaction_event call did

vars == <<balance, acctStatus, ledger, pc, txn, sess, err, response,
          completedTopic, failedTopic,
          consumerStarted, running, stopped, cpc, position, committedOffset,
          rebalances, cur, processed, effects, lastResult>>

execVars == <<pc, txn, sess, err, response>>
consumerVars == <<consumerStarted, running, stopped, cpc, position, committedOffset,
                  rebalances, cur, processed, effects, lastResult>>

dbVars == <<balance, acctStatus, ledger>>
brokerVars == <<completedTopic, failedTopic>>

\* ---------------------------------------------------- pure functions

\* Fault variant: the system ceiling is not checked.
RequestShapeErrorNoCeiling(f, t, amount) ==
    IF f <= 0 \/ t <= 0 THEN "bad_account_id"
    ELSE IF f = t THEN "same_account"
    ELSE IF amount <= 0 THEN "amount_not_positive"
    ELSE ""

\* TransactionService.validate_transfer_request
RequestShapeError(f, t, amount) ==
    IF f <= 0 \/ t <= 0 THEN "bad_account_id"
    ELSE IF f = t THEN "same_account"
    ELSE IF amount <= 0 THEN "amount_not_positive"
    ELSE IF amount > SystemMaxAmount THEN "amount_over_maximum"
    ELSE ""

\* Fault variant: a frozen account passes the status check.
ValidateAccountForTransferFrozenOk(a, required) ==
    IF a \notin AccountIds THEN "not_found"
    ELSE IF acctStatus[a] \in {"inactive", "closed"} THEN "inactive"
    ELSE IF required # 0 /\ balance[a] < required THEN "insufficient_funds"
    ELSE ""

\* Fault variant: the balance is not compared with the required amount.
ValidateAccountForTransferNoFunds(a, required) ==
    IF a \notin AccountIds THEN "not_found"
    ELSE IF acctStatus[a] # "active" THEN "inactive"
    ELSE ""

\* AccountService.validate_account_for_transfer; required = 0 stands for
\* the absent (None) required_amount, which the code tests for truth.
ValidateAccountForTransfer(a, required) ==
    IF a \notin AccountIds THEN "not_found"
    ELSE IF acctStatus[a] # "active" THEN "inactive"
    ELSE IF required # 0 /\ balance[a] < required THEN "insufficient_funds"
    ELSE ""

\* AccountService.check_daily_transfer_limits
DailyLimit(a) ==
    IF AccountType[a] = "vip" THEN VipDailyLimit
    ELSE IF AccountType[a] = "business" THEN BusinessDailyLimit
    ELSE RegularDailyLimit

\* Fault variant: no amount exceeds the daily limit.
CheckDailyTransferLimitsOff(a, amount) == ""

\* Fault variant: an amount equal to the daily limit is rejected too.
CheckDailyTransferLimitsAtCeiling(a, amount) ==
    IF amount >= DailyLimit(a) THEN "limit_exceeded" ELSE ""

CheckDailyTransferLimits(a, amount) ==
    IF amount > DailyLimit(a) THEN "limit_exceeded" ELSE ""

\* Fault variant: only the source account's currency is compared with the
\* requested one.
TransferErrorSourceCurrencyOnly(f, t, amount, currency) ==
    IF amount <= 0 THEN "amount_not_positive"
    ELSE IF f = t THEN "same_account"
    ELSE IF ValidateAccountForTransfer(f, amount) # ""
        THEN ValidateAccountForTransfer(f, amount)
    ELSE IF ValidateAccountForTransfer(t, 0) # ""
        THEN ValidateAccountForTransfer(t, 0)
    ELSE IF AccountCurrency[f] # currency
        THEN "currency_mismatch"
    ELSE CheckDailyTransferLimits(f, amount)

\* execute_transfer, lines 36-55: the first exception raised, "" if none.
TransferError(f, t, amount, currency) ==
    IF amount <= 0 THEN "amount_not_positive"
    ELSE IF f = t THEN "same_account"
    ELSE IF ValidateAccountForTransfer(f, amount) # ""
        THEN ValidateAccountForTransfer(f, amount)
    ELSE IF ValidateAccountForTransfer(t, 0) # ""
        THEN ValidateAccountForTransfer(t, 0)
    ELSE IF AccountCurrency[f] # currency \/ AccountCurrency[t] # currency
        THEN "currency_mismatch"
    ELSE CheckDailyTransferLimits(f, amount)

\* Fault variant: the source is not debited.
FromBalanceAfterNoDebit(before, amount) == before

\* Fault variant: the destination is not credited.
ToBalanceAfterNoCredit(before, amount) == before

\* execute_transfer, lines 62-63
FromBalanceAfter(before, amount) == before - amount
ToBalanceAfter(before, amount) == before + amount

\* execute_transfer, lines 57-84: the Transaction object, status pending,
\* with the balances read by the two validation SELECTs.
NewTransaction(id, f, t, amount, currency) ==
    [transaction_id |-> id, from_account_id |-> f, to_account_id |-> t,
     from_balance_before |-> balance[f],
     from_balance_after |-> FromBalanceAfter(balance[f], amount),
     to_balance_before |-> balance[t],
     to_balance_after |-> ToBalanceAfter(balance[t], amount),
     amount |-> amount, currency |-> currency, status |-> "pending"]

\* Transaction.to_kafka_event
ToKafkaEvent(row) ==
    [event_type |-> "transaction", transaction_id |-> row.transaction_id,
     amount |-> row.amount, status |-> row.status]

\* The rows a session's open transaction has locked by its UPDATEs.
Locked(p) ==
    (IF sess[p].wrote_from THEN {txn[p].from_account_id} ELSE {})
    \cup (IF sess[p].wrote_to THEN {txn[p].to_account_id} ELSE {})

LockedByOther(p, a) == \E q \in Procs \ {p} : a \in Locked(q)

\* ------------------------------------------------------------- Init
Init ==
    /\ balance = InitBalance
    /\ acctStatus = InitStatus
    /\ ledger = {}
    /\ pc = [p \in Procs |-> "idle"]
    /\ txn = [p \in Procs |-> NoTxn]
    /\ sess = [p \in Procs |-> NoSession]
    /\ err = [p \in Procs |-> ""]
    /\ response = NoResponse
    /\ completedTopic = <<>>
    /\ failedTopic = <<>>
    /\ consumerStarted = FALSE
    /\ running = FALSE
    /\ stopped = FALSE
    /\ cpc = "init"
    /\ position = 0
    /\ committedOffset = 0
    /\ rebalances = 0
    /\ cur = NoEvent
    /\ processed = {}
    /\ effects = [id \in TxnIds |-> NoEffects]
    /\ lastResult = NoResult

\* ------------------------------------------- the Transfer Executor

\* execute_transfer ends: it returns its transaction (line 120) or raises
\* (line 149), and transfer_money turns that into the answer to the client.
Returned(t) == [outcome |-> "returned", error |-> "", transaction |-> t]
Raised(e, t) == [outcome |-> "raised", error |-> e, transaction |-> t]

\* A client request, from transfer_money up to the flush of execute_transfer:
\* the request-shape check, then lines 36-84. Both SELECTs read one committed
\* snapshot. An exception raised here finds no `transaction` in locals(): the
\* rollback of the empty transaction changes nothing and the error is raised.
BeginTransfer(p, f, t, amount, currency) ==
    /\ pc[p] = "idle"
    /\ IF RequestShapeError(f, t, amount) # ""
       THEN /\ pc' = [pc EXCEPT ![p] = "done"]
            /\ response' = Raised(RequestShapeError(f, t, amount), NoTxn)
            /\ txn' = txn
       ELSE IF TransferError(f, t, amount, currency) # ""
       THEN /\ pc' = [pc EXCEPT ![p] = "done"]
            /\ response' = Raised(TransferError(f, t, amount, currency), NoTxn)
            /\ txn' = txn
       ELSE \E id \in TxnIds :
            /\ pc' = [pc EXCEPT ![p] = "flush"]
            /\ response' = response
            /\ txn' = [txn EXCEPT ![p] = NewTransaction(id, f, t, amount, currency)]
    /\ UNCHANGED <<dbVars, sess, err, brokerVars, consumerVars>>

\* Fault variant: the INSERT of an identifier that is already stored
\* replaces the stored row and the transfer goes on.
FlushReplacing(p) ==
    /\ pc[p] = "flush"
    /\ ~ \E q \in Procs \ {p} :
            sess[q].flushed /\ txn[q].transaction_id = txn[p].transaction_id
    /\ ledger' = {r \in ledger : r.transaction_id # txn[p].transaction_id}
    /\ pc' = [pc EXCEPT ![p] = "upd_from"]
    /\ sess' = [sess EXCEPT ![p].flushed = TRUE]
    /\ UNCHANGED <<response, balance, acctStatus, err, txn, brokerVars,
                   consumerVars>>

\* session.add(transaction); session.flush(): the INSERT. A committed row
\* with the same transaction_id violates the unique constraint; an
\* uncommitted one makes the INSERT wait for the other transaction.
Flush(p) ==
    /\ pc[p] = "flush"
    /\ ~ \E q \in Procs \ {p} :
            sess[q].flushed /\ txn[q].transaction_id = txn[p].transaction_id
    /\ IF \E r \in ledger : r.transaction_id = txn[p].transaction_id
       THEN /\ pc' = [pc EXCEPT ![p] = "rollback"]
            /\ err' = [err EXCEPT ![p] = "duplicate_id"]
            /\ sess' = sess
       ELSE /\ pc' = [pc EXCEPT ![p] = "upd_from"]
            /\ err' = err
            /\ sess' = [sess EXCEPT ![p].flushed = TRUE]
    /\ UNCHANGED <<response, dbVars, txn, brokerVars, consumerVars>>

\* Fault variant: the new balance is written without the sign check.
UpdateAccountBalanceUnchecked(old, new) ==
    [error |-> "", balance |-> new]

\* AccountService.update_account_balance on an account whose balance is
\* `old`: the error raised ("" if none) and the balance the account object
\* holds afterwards, flushed to the open transaction.
UpdateAccountBalance(old, new) ==
    IF new < 0 THEN [error |-> "negative_balance", balance |-> old]
    ELSE [error |-> "", balance |-> new]

\* AccountService.update_account_balance on the source account.
UpdateFromBalance(p) ==
    /\ pc[p] = "upd_from"
    /\ IF UpdateAccountBalance(txn[p].from_balance_before,
                               txn[p].from_balance_after).error # ""
       THEN /\ pc' = [pc EXCEPT ![p] = "rollback"]
            /\ err' = [err EXCEPT ![p] = "negative_balance"]
            /\ sess' = sess
       ELSE /\ ~ LockedByOther(p, txn[p].from_account_id)
            /\ pc' = [pc EXCEPT ![p] = "upd_to"]
            /\ err' = err
            /\ sess' = [sess EXCEPT ![p].wrote_from = TRUE]
    /\ UNCHANGED <<response, dbVars, txn, brokerVars, consumerVars>>

\* Fault variant: the status is not set to completed before the commit.
UpdateToBalanceKeepingPending(p) ==
    /\ pc[p] = "upd_to"
    /\ IF UpdateAccountBalance(txn[p].to_balance_before,
                               txn[p].to_balance_after).error # ""
       THEN /\ pc' = [pc EXCEPT ![p] = "rollback"]
            /\ err' = [err EXCEPT ![p] = "negative_balance"]
            /\ sess' = sess
       ELSE /\ ~ LockedByOther(p, txn[p].to_account_id)
            /\ pc' = [pc EXCEPT ![p] = "commit"]
            /\ err' = err
            /\ sess' = [sess EXCEPT ![p].wrote_to = TRUE]
    /\ UNCHANGED <<response, dbVars, txn, brokerVars, consumerVars>>

\* AccountService.update_account_balance on the destination account, then
\* transaction.status = COMPLETED (line 98).
UpdateToBalance(p) ==
    /\ pc[p] = "upd_to"
    /\ IF UpdateAccountBalance(txn[p].to_balance_before,
                               txn[p].to_balance_after).error # ""
       THEN /\ pc' = [pc EXCEPT ![p] = "rollback"]
            /\ err' = [err EXCEPT ![p] = "negative_balance"]
            /\ sess' = sess
            /\ txn' = txn
       ELSE /\ ~ LockedByOther(p, txn[p].to_account_id)
            /\ pc' = [pc EXCEPT ![p] = "commit"]
            /\ err' = err
            /\ sess' = [sess EXCEPT ![p].wrote_to = TRUE]
            /\ txn' = [txn EXCEPT ![p].status = "completed"]
    /\ UNCHANGED <<response, dbVars, brokerVars, consumerVars>>

\* Fault variant: the commit makes only the source's UPDATE durable.
CommittedBalanceFromOnly(p) ==
    [a \in AccountIds |->
        IF sess[p].wrote_from /\ a = txn[p].from_account_id
            THEN txn[p].from_balance_after
        ELSE balance[a]]

\* What the commit of a session's open transaction makes durable.
CommittedBalance(p) ==
    [a \in AccountIds |->
        IF sess[p].wrote_to /\ a = txn[p].to_account_id
            THEN UpdateAccountBalance(txn[p].to_balance_before,
                                      txn[p].to_balance_after).balance
        ELSE IF sess[p].wrote_from /\ a = txn[p].from_account_id
            THEN UpdateAccountBalance(txn[p].from_balance_before,
                                      txn[p].from_balance_after).balance
        ELSE balance[a]]

\* Fault variant: the commit makes everything durable and then raises.
CommitDurableThenRaise(p) ==
    /\ pc[p] = "commit"
    /\ balance' = CommittedBalance(p)
    /\ ledger' = ledger \cup {txn[p]}
    /\ sess' = [sess EXCEPT ![p] = [NoSession EXCEPT !.persistent = TRUE]]
    /\ \E raises \in BOOLEAN :
          /\ pc' = [pc EXCEPT ![p] = IF raises THEN "rollback" ELSE "publish"]
          /\ err' = [err EXCEPT ![p] = IF raises THEN "db_error" ELSE @]
    /\ UNCHANGED <<response, acctStatus, txn, brokerVars, consumerVars>>

\* session.commit() (line 101) returning normally.
Commit(p) ==
    /\ pc[p] = "commit"
    /\ balance' = CommittedBalance(p)
    /\ ledger' = ledger \cup {txn[p]}
    /\ sess' = [sess EXCEPT ![p] = [NoSession EXCEPT !.persistent = TRUE]]
    /\ pc' = [pc EXCEPT ![p] = "publish"]
    /\ UNCHANGED <<response, acctStatus, txn, err, brokerVars, consumerVars>>

\* Fault variant: a commit that fails has already made the source's write
\* durable.
DbFailPartial(p) ==
    /\ pc[p] \in {"flush", "upd_from", "upd_to", "commit"}
    /\ pc' = [pc EXCEPT ![p] = "rollback"]
    /\ err' = [err EXCEPT ![p] = "db_error"]
    /\ balance' = IF pc[p] = "commit" THEN CommittedBalanceFromOnly(p)
                  ELSE balance
    /\ UNCHANGED <<response, ledger, acctStatus, txn, sess, brokerVars,
                   consumerVars>>

\* The store failing a statement of the open transaction: a deadlock or
\* lock-wait abort, a lost connection. The commit either returns or raises
\* with nothing made durable.
DbFail(p) ==
    /\ pc[p] \in {"flush", "upd_from", "upd_to", "commit"}
    /\ pc' = [pc EXCEPT ![p] = "rollback"]
    /\ err' = [err EXCEPT ![p] = "db_error"]
    /\ UNCHANGED <<response, dbVars, txn, sess, brokerVars, consumerVars>>

\* What can happen to one publication: the event is sent; the producer was
\* never started (kafka_producer.producer is None: the broker was unavailable
\* when the API started); building the event raises; the send raises.
PublishOutcomes == {"sent", "no_producer", "build_error", "send_error"}

\* KafkaProducer.send_transaction_event: the event reaches the topic when
\* the producer is started and the send goes through; it returns normally
\* in every case.
SendTransactionEvent(topic, event, outcome) ==
    IF outcome = "sent" THEN Append(topic, event) ELSE topic

\* Fault variant: a publication that fails raises out of the inner try, into
\* the handler of line 122.
PublishCompletedRaising(p) ==
    /\ pc[p] = "publish"
    /\ \E outcome \in PublishOutcomes :
        /\ completedTopic' =
              SendTransactionEvent(completedTopic, ToKafkaEvent(txn[p]), outcome)
        /\ IF outcome = "sent"
           THEN /\ pc' = [pc EXCEPT ![p] = "done"]
                /\ response' = Returned(txn[p])
                /\ txn' = [txn EXCEPT ![p] = NoTxn]
                /\ sess' = [sess EXCEPT ![p] = NoSession]
                /\ err' = err
           ELSE /\ pc' = [pc EXCEPT ![p] = "rollback"]
                /\ err' = [err EXCEPT ![p] = outcome]
                /\ UNCHANGED <<response, txn, sess>>
    /\ UNCHANGED <<dbVars, failedTopic, consumerVars>>

\* Fault variant: a completed event that was sent is sent a second time.
PublishCompletedTwice(p) ==
    /\ pc[p] = "publish"
    /\ \E outcome \in PublishOutcomes :
        completedTopic' =
            SendTransactionEvent(
                SendTransactionEvent(completedTopic, ToKafkaEvent(txn[p]), outcome),
                ToKafkaEvent(txn[p]), outcome)
    /\ pc' = [pc EXCEPT ![p] = "done"]
    /\ response' = Returned(txn[p])
    /\ txn' = [txn EXCEPT ![p] = NoTxn]
    /\ sess' = [sess EXCEPT ![p] = NoSession]
    /\ UNCHANGED <<dbVars, err, failedTopic, consumerVars>>

\* Lines 103-120: build the event and publish it, best effort, and return.
PublishCompleted(p) ==
    /\ pc[p] = "publish"
    /\ \E outcome \in PublishOutcomes :
        completedTopic' =
            SendTransactionEvent(completedTopic, ToKafkaEvent(txn[p]), outcome)
    /\ pc' = [pc EXCEPT ![p] = "done"]
    /\ response' = Returned(txn[p])
    /\ txn' = [txn EXCEPT ![p] = NoTxn]
    /\ sess' = [sess EXCEPT ![p] = NoSession]
    /\ UNCHANGED <<dbVars, err, failedTopic, consumerVars>>

\* Fault variant: the FAILED status is written to whatever committed row
\* carries the transaction_id, whoever inserted it.
RollbackAndMarkFailedById(p) ==
    /\ pc[p] = "rollback"
    /\ sess' = [sess EXCEPT ![p] = [NoSession EXCEPT !.persistent = sess[p].persistent]]
    /\ txn' = [txn EXCEPT ![p].status = "failed"]
    /\ ledger' = {IF r.transaction_id = txn[p].transaction_id
                  THEN [r EXCEPT !.status = "failed"] ELSE r : r \in ledger}
    /\ pc' = [pc EXCEPT ![p] = "publish_failed"]
    /\ UNCHANGED <<response, balance, acctStatus, err, brokerVars, consumerVars>>

\* Fault variant: the handler does not roll back, and its commit makes the
\* balance writes of the failed attempt durable.
RollbackKeepingWrites(p) ==
    /\ pc[p] = "rollback"
    /\ sess' = [sess EXCEPT ![p] = [NoSession EXCEPT !.persistent = sess[p].persistent]]
    /\ txn' = [txn EXCEPT ![p].status = "failed"]
    /\ balance' = CommittedBalance(p)
    /\ pc' = [pc EXCEPT ![p] = "publish_failed"]
    /\ UNCHANGED <<response, ledger, acctStatus, err, brokerVars, consumerVars>>

\* Lines 123-128: session.rollback(), then transaction.status = FAILED and
\* session.commit(). The rollback undoes the open transaction's INSERT and
\* UPDATEs, releases its locks and expunges the object it had inserted; the
\* commit then writes the status only of a row the session still holds as
\* persistent, one a commit of this session had made durable.
RollbackAndMarkFailed(p) ==
    /\ pc[p] = "rollback"
    /\ sess' = [sess EXCEPT ![p] = [NoSession EXCEPT !.persistent = sess[p].persistent]]
    /\ txn' = [txn EXCEPT ![p].status = "failed"]
    /\ ledger' = IF sess[p].persistent
                 THEN {IF r.transaction_id = txn[p].transaction_id
                       THEN [r EXCEPT !.status = "failed"] ELSE r : r \in ledger}
                 ELSE ledger
    /\ pc' = [pc EXCEPT ![p] = "publish_failed"]
    /\ UNCHANGED <<response, balance, acctStatus, err, brokerVars, consumerVars>>

\* Lines 131-146: the failed_transaction event, best effort.
FailedEvent(p) ==
    [event_type |-> "failed_transaction",
     transaction_id |-> txn[p].transaction_id,
     error_message |-> err[p], retry_count |-> 0,
     original_event |-> ToKafkaEvent(txn[p])]

\* Fault variant: the error path publishes the transfer on the completed
\* topic.
PublishFailedOnCompletedTopic(p) ==
    /\ pc[p] = "publish_failed"
    /\ \E outcome \in PublishOutcomes :
        completedTopic' =
            SendTransactionEvent(completedTopic, ToKafkaEvent(txn[p]), outcome)
    /\ pc' = [pc EXCEPT ![p] = "done"]
    /\ response' = Raised(err[p], txn[p])
    /\ txn' = [txn EXCEPT ![p] = NoTxn]
    /\ sess' = [sess EXCEPT ![p] = NoSession]
    /\ err' = [err EXCEPT ![p] = ""]
    /\ UNCHANGED <<dbVars, failedTopic, consumerVars>>

\* Fault variant: send_transaction_event raises when the producer is absent
\* or the send fails, and the error that reaches the caller is that one.
PublishFailedRaising(p) ==
    /\ pc[p] = "publish_failed"
    /\ \E outcome \in PublishOutcomes :
        /\ failedTopic' = SendTransactionEvent(failedTopic, FailedEvent(p), outcome)
        /\ response' = Raised(IF outcome \in {"no_producer", "send_error"}
                              THEN outcome ELSE err[p], txn[p])
    /\ pc' = [pc EXCEPT ![p] = "done"]
    /\ txn' = [txn EXCEPT ![p] = NoTxn]
    /\ sess' = [sess EXCEPT ![p] = NoSession]
    /\ err' = [err EXCEPT ![p] = ""]
    /\ UNCHANGED <<dbVars, completedTopic, consumerVars>>

PublishFailed(p) ==
    /\ pc[p] = "publish_failed"
    /\ \E outcome \in PublishOutcomes :
        failedTopic' = SendTransactionEvent(failedTopic, FailedEvent(p), outcome)
    /\ pc' = [pc EXCEPT ![p] = "done"]
    /\ response' = Raised(err[p], txn[p])
    /\ txn' = [txn EXCEPT ![p] = NoTxn]
    /\ sess' = [sess EXCEPT ![p] = NoSession]
    /\ err' = [err EXCEPT ![p] = ""]
    /\ UNCHANGED <<dbVars, completedTopic, consumerVars>>

\* A request that has begun takes its next step.
ExecutorRun(p) ==
    \/ Flush(p)
    \/ UpdateFromBalance(p)
    \/ UpdateToBalance(p)
    \/ Commit(p)
    \/ DbFail(p)
    \/ PublishCompleted(p)
    \/ RollbackAndMarkFailed(p)
    \/ PublishFailed(p)

ExecutorStep(p) ==
    \/ \E req \in Requests :
          BeginTransfer(p, req[1], req[2], req[3], req[4])
    \/ ExecutorRun(p)

\* --------------------------------------- the Transaction Processor

\* ------------------------------------------- the account endpoints

\* The accounts update_account and delete_account are called on, and the
\* request bodies update_account is sent: a status, alone or together with
\* another column of the account.
UpdateAccountIds == {2}
DeleteAccountIds == {2, 6}
UpdateBodies ==
    {[status |-> "active"], [status |-> "frozen"],
     [status |-> "frozen", currency |-> "USD"],
     [status |-> "frozen", balance |-> 0]}

\* An open transaction of some request holds the row lock of account a.
RowLocked(a) == \E q \in Procs : a \in Locked(q)

\* The committed row of account a.
AccountRow(a) ==
    [status |-> acctStatus[a], balance |-> balance[a],
     currency |-> AccountCurrency[a], account_type |-> AccountType[a]]

\* Fault variant: the schema keeps every field of the body.
AccountUpdateKeepingAll(body) == body

\* The AccountUpdate schema applied to a request body, then
\* dict(exclude_unset=True): the status if the body has one; any other
\* field of the body is dropped.
AccountUpdate(body) ==
    [field \in DOMAIN body \cap {"status"} |-> body[field]]

\* update_account, lines 157-161: setattr for each field of the update.
SetFields(row, data) ==
    [field \in DOMAIN row |->
        IF field \in DOMAIN data THEN data[field] ELSE row[field]]

\* PUT /accounts/{id}: the row is read without a lock, the fields of the
\* update are set and the commit writes them. The UPDATE waits while an
\* open transaction holds the row.
UpdateAccount(a, body) ==
    /\ a \in AccountIds
    /\ ~ RowLocked(a)
    /\ LET row == SetFields(AccountRow(a), AccountUpdate(body))
       IN  /\ acctStatus' = [acctStatus EXCEPT ![a] = row.status]
           /\ balance' = [balance EXCEPT ![a] = row.balance]
    /\ UNCHANGED <<ledger, execVars, brokerVars, consumerVars>>

\* DELETE /accounts/{id}: refused for an account with a positive balance,
\* otherwise the status becomes closed.
DeleteAccount(a) ==
    /\ a \in AccountIds
    /\ ~ RowLocked(a)
    /\ acctStatus' = IF balance[a] > 0 THEN acctStatus
                     ELSE [acctStatus EXCEPT ![a] = "closed"]
    /\ UNCHANGED <<balance, ledger, execVars, brokerVars, consumerVars>>

AccountStep ==
    \/ \E a \in UpdateAccountIds, body \in UpdateBodies : UpdateAccount(a, body)
    \/ \E a \in DeleteAccountIds : DeleteAccount(a)

\* What the environment does to one dispatch: every step runs, or one of the
\* three side-effect steps or the store lookup after them raises.
DispatchOutcomes ==
    {"ok", "regulatory_raises", "analytics_raises", "notification_raises",
     "lookup_raises"}

\* event_data.get('retry_count', 0)
RetryCount(event) ==
    IF "retry_count" \in DOMAIN event THEN event.retry_count ELSE 0

\* TransactionProcessor._process_completed_transaction: regulatory check,
\* analytics update, notification, then the lookup of the row; any exception
\* makes it return False. sequence_done: the three side effects all ran.
ProcessCompletedTransaction(event, outcome) ==
    [success |-> outcome = "ok",
     sequence_done |-> outcome \in {"ok", "lookup_raises"},
     verdict |-> "none"]

\* Fault variant: the limit itself still counts as a retry.
ProcessFailedTransactionOffByOne(event, outcome) ==
    [success |-> TRUE, sequence_done |-> FALSE,
     verdict |-> IF RetryCount(event) <= MAX_RETRIES THEN "retry"
                 ELSE "permanent"]

\* TransactionProcessor._process_failed_transaction: it returns True whether
\* the event is to be retried (retry_count < MAX_RETRIES) or not, and
\* _handle_transaction_failure swallows a failing lookup. verdict: which of
\* the two branches of line 104 was logged.
ProcessFailedTransaction(event, outcome) ==
    [success |-> TRUE, sequence_done |-> FALSE,
     verdict |-> IF RetryCount(event) < MAX_RETRIES THEN "retry"
                 ELSE "permanent"]

\* Fault variant: no transfer is ever recognised as processed.
IsNeverProcessed(id, done) == FALSE

\* TransactionProcessor._is_already_processed
IsAlreadyProcessed(id, done) == id \in done

\* Fault variant: an event without transaction_id is dispatched like any
\* other.
ProcessTransactionEventNoIdCheck(event, done, outcome) ==
    LET id == event.transaction_id
        none == [success |-> FALSE, dispatched |-> FALSE,
                 sequence_done |-> FALSE, processed |-> done,
                 verdict |-> "none"]
    IN  IF IsAlreadyProcessed(id, done)
            THEN [none EXCEPT !.success = TRUE]
        ELSE IF event.event_type \notin {"transaction", "failed_transaction"}
            THEN none
        ELSE LET r == IF event.event_type = "transaction"
                      THEN ProcessCompletedTransaction(event, outcome)
                      ELSE ProcessFailedTransaction(event, outcome)
             IN  [success |-> r.success, dispatched |-> TRUE,
                  sequence_done |-> r.sequence_done,
                  processed |-> IF r.success THEN done \cup {id} ELSE done,
                  verdict |-> r.verdict]

\* Fault variant: an event of an unknown type is skipped as if it had been
\* handled.
ProcessTransactionEventUnknownSkipped(event, done, outcome) ==
    LET id == event.transaction_id
        none == [success |-> FALSE, dispatched |-> FALSE,
                 sequence_done |-> FALSE, processed |-> done,
                 verdict |-> "none"]
    IN  IF id = 0 THEN none
        ELSE IF IsAlreadyProcessed(id, done)
            THEN [none EXCEPT !.success = TRUE]
        ELSE IF event.event_type \notin {"transaction", "failed_transaction"}
            THEN [none EXCEPT !.success = TRUE]
        ELSE LET r == IF event.event_type = "transaction"
                      THEN ProcessCompletedTransaction(event, outcome)
                      ELSE ProcessFailedTransaction(event, outcome)
             IN  [success |-> r.success, dispatched |-> TRUE,
                  sequence_done |-> r.sequence_done,
                  processed |-> IF r.success THEN done \cup {id} ELSE done,
                  verdict |-> r.verdict]

\* Fault variant: only the identifiers of completed events are recorded.
ProcessTransactionEventPerType(event, done, outcome) ==
    LET id == event.transaction_id
        none == [success |-> FALSE, dispatched |-> FALSE,
                 sequence_done |-> FALSE, processed |-> done,
                 verdict |-> "none"]
    IN  IF id = 0 THEN none
        ELSE IF IsAlreadyProcessed(id, done)
            THEN [none EXCEPT !.success = TRUE]
        ELSE IF event.event_type \notin {"transaction", "failed_transaction"}
            THEN none
        ELSE LET r == IF event.event_type = "transaction"
                      THEN ProcessCompletedTransaction(event, outcome)
                      ELSE ProcessFailedTransaction(event, outcome)
             IN  [success |-> r.success, dispatched |-> TRUE,
                  sequence_done |-> r.sequence_done,
                  processed |-> IF r.success /\ event.event_type = "transaction"
                                THEN done \cup {id} ELSE done,
                  verdict |-> r.verdict]

\* Fault variant: the identifier is recorded after every dispatch, failed
\* or not.
ProcessTransactionEventAlwaysRecords(event, done, outcome) ==
    LET id == event.transaction_id
        none == [success |-> FALSE, dispatched |-> FALSE,
                 sequence_done |-> FALSE, processed |-> done,
                 verdict |-> "none"]
    IN  IF id = 0 THEN none
        ELSE IF IsAlreadyProcessed(id, done)
            THEN [none EXCEPT !.success = TRUE]
        ELSE IF event.event_type \notin {"transaction", "failed_transaction"}
            THEN none
        ELSE LET r == IF event.event_type = "transaction"
                      THEN ProcessCompletedTransaction(event, outcome)
                      ELSE ProcessFailedTransaction(event, outcome)
             IN  [success |-> r.success, dispatched |-> TRUE,
                  sequence_done |-> r.sequence_done,
                  processed |-> done \cup {id},
                  verdict |-> r.verdict]

\* TransactionProcessor.process_transaction_event on `event` with the
\* idempotency set `done`: the value returned, whether a dispatch was made,
\* whether its side effects all ran, and the idempotency set afterwards.
ProcessTransactionEvent(event, done, outcome) ==
    LET id == event.transaction_id
        none == [success |-> FALSE, dispatched |-> FALSE,
                 sequence_done |-> FALSE, processed |-> done,
                 verdict |-> "none"]
    IN  IF id = 0 THEN none
        ELSE IF IsAlreadyProcessed(id, done)
            THEN [none EXCEPT !.success = TRUE]
        ELSE IF event.event_type \notin {"transaction", "failed_transaction"}
            THEN none
        ELSE LET r == IF event.event_type = "transaction"
                      THEN ProcessCompletedTransaction(event, outcome)
                      ELSE ProcessFailedTransaction(event, outcome)
             IN  [success |-> r.success, dispatched |-> TRUE,
                  sequence_done |-> r.sequence_done,
                  processed |-> IF r.success THEN done \cup {id} ELSE done,
                  verdict |-> r.verdict]

\* ------------------------------------------- the Event Consumer Loop

\* Fault variant: the retry count is copied, not incremented.
ConsumerFailedEventNoIncrement(event, message) ==
    [event_type |-> "failed_transaction",
     transaction_id |-> event.transaction_id,
     error_message |-> message,
     retry_count |-> RetryCount(event),
     original_event |-> event]

\* TransactionConsumer._send_to_failed_topic
ConsumerFailedEvent(event, message) ==
    [event_type |-> "failed_transaction",
     transaction_id |-> event.transaction_id,
     error_message |-> message,
     retry_count |-> RetryCount(event) + 1,
     original_event |-> event]

SendToFailedTopic(topic, event, message, sent) ==
    IF consumerStarted /\ sent
    THEN Append(topic, ConsumerFailedEvent(event, message))
    ELSE topic

\* TransactionConsumer.start: the consumer and its producer are both started,
\* or the broker is unavailable and both are left None.
StartConsumer ==
    /\ cpc = "init"
    /\ consumerStarted' \in BOOLEAN
    /\ cpc' = "start"
    /\ UNCHANGED <<stopped, dbVars, execVars, brokerVars, running, position,
                   committedOffset, rebalances, cur, processed, effects,
                   lastResult>>

\* consume_messages is entered (lines 82-90). Without a consumer the idle
\* loop runs while self.running, which __init__ set to False.
EnterConsumeMessages ==
    /\ cpc = "start"
    /\ IF ~ consumerStarted
       THEN /\ cpc' = IF running THEN "start" ELSE "done"
            /\ running' = running
       ELSE /\ running' = TRUE
            /\ cpc' = "poll"
    /\ UNCHANGED <<stopped, dbVars, execVars, brokerVars, consumerStarted, position,
                   committedOffset, rebalances, cur, processed, effects,
                   lastResult>>

\* `async for message in self.consumer`: the next message of the topic; the
\* loop breaks when running is False.
FetchMessage ==
    /\ cpc = "poll"
    /\ position < Len(completedTopic)
    /\ position' = position + 1
    /\ IF ~ running
       THEN /\ cpc' = "done"
            /\ cur' = cur
       ELSE /\ cpc' = "process"
            /\ cur' = completedTopic[position + 1]
    /\ UNCHANGED <<stopped, dbVars, execVars, brokerVars, consumerStarted, running,
                   committedOffset, rebalances, processed, effects, lastResult>>

\* _process_message: the processor is called; when it returns False the
\* event is sent to the failed topic. Nothing is raised to the loop.
ProcessMessage ==
    /\ cpc = "process"
    /\ \E outcome \in DispatchOutcomes, sent \in BOOLEAN :
        LET r == ProcessTransactionEvent(cur, processed, outcome)
            id == cur.transaction_id
        IN  /\ processed' = r.processed
            /\ effects' =
                  IF id \notin TxnIds THEN effects
                  ELSE [effects EXCEPT
                     ![id].sequence_done = @ + (IF r.sequence_done THEN 1 ELSE 0),
                     ![id].ok = @ + (IF r.dispatched /\ r.success THEN 1 ELSE 0)]
            /\ lastResult' =
                  [transaction_id |-> id, success |-> r.success,
                   dispatched |-> r.dispatched,
                   after_ok |-> id \in TxnIds /\ effects[id].ok > 0,
                   verdict |-> r.verdict]
            /\ failedTopic' =
                  IF r.success THEN failedTopic
                  ELSE SendToFailedTopic(failedTopic, cur, "Processing failed", sent)
    /\ cpc' = "commit"
    /\ UNCHANGED <<stopped, dbVars, execVars, completedTopic,
                   consumerStarted, running, position, committedOffset,
                   rebalances, cur>>

\* Fault variant: an offset commit that raises ends the loop.
CommitOffsetOrStop ==
    /\ cpc = "commit"
    /\ \E ok \in BOOLEAN :
        /\ committedOffset' = IF ok THEN position ELSE committedOffset
        /\ cpc' = IF ok THEN "poll" ELSE "done"
    /\ UNCHANGED <<stopped, dbVars, execVars, brokerVars, consumerStarted, running,
                   position, rebalances, cur, processed, effects, lastResult>>

\* Line 101: self.consumer.commit() after _process_message returned; a
\* commit that raises is logged by the handler of line 103.
CommitOffset ==
    /\ cpc = "commit"
    /\ \E ok \in BOOLEAN :
        committedOffset' = IF ok THEN position ELSE committedOffset
    /\ cpc' = "poll"
    /\ UNCHANGED <<stopped, dbVars, execVars, brokerVars, consumerStarted, running,
                   position, rebalances, cur, processed, effects, lastResult>>

\* The broker reassigns the partition: fetching resumes at the committed
\* offset, so what was fetched and not committed is delivered again.
Rebalance ==
    /\ cpc = "poll"
    /\ rebalances < MaxRebalances
    /\ position > committedOffset
    /\ rebalances' = rebalances + 1
    /\ position' = committedOffset
    /\ UNCHANGED <<stopped, dbVars, execVars, brokerVars, consumerStarted, running, cpc,
                   committedOffset, cur, processed, effects, lastResult>>

\* TransactionConsumer.stop (lines 68-78), called while consume_messages
\* is suspended or has not begun: line 70 clears the flag, lines 72-77
\* stop the consumer and the producer; self.consumer stays set.
Stop ==
    /\ ~ stopped
    /\ cpc # "done"
    /\ running' = FALSE
    /\ stopped' = TRUE
    /\ UNCHANGED <<dbVars, execVars, brokerVars, consumerStarted, cpc, position,
                   committedOffset, rebalances, cur, processed, effects,
                   lastResult>>

\* ConsumerService.stop (main.py lines 50-70): the task running
\* consume_messages, if one was created, is cancelled and awaited
\* (lines 57-62), then TransactionConsumer.stop is called (line 65).
ServiceStop ==
    /\ ~ stopped
    /\ cpc # "start"
    /\ cpc' = IF cpc \in {"poll", "process", "commit"} THEN "done" ELSE cpc
    /\ running' = FALSE
    /\ stopped' = TRUE
    /\ UNCHANGED <<dbVars, execVars, brokerVars, consumerStarted, position,
                   committedOffset, rebalances, cur, processed, effects,
                   lastResult>>

\* `async for message in self.consumer` over a consumer that line 73
\* stopped: the iteration may end instead of yielding a message.
StoppedIterationEnds ==
    /\ stopped
    /\ cpc = "poll"
    /\ cpc' = "done"
    /\ UNCHANGED <<stopped, dbVars, execVars, brokerVars, consumerStarted, running,
                   position, committedOffset, rebalances, cur, processed,
                   effects, lastResult>>

\* The completed event of transfer `id` arrives on the topic: what lines
\* 103-110 of execute_transfer send, once per committed transfer.  The
\* transfers are named in the order their events arrive.
ProduceCompleted(id) ==
    /\ id = MinTxnId + Len(completedTopic)
    /\ \E amount \in Amounts \ {0} :
        completedTopic' =
            SendTransactionEvent(completedTopic,
                [event_type |-> "transaction", transaction_id |-> id,
                 amount |-> amount, status |-> "completed"], "sent")
    /\ UNCHANGED <<dbVars, execVars, failedTopic, consumerVars>>

\* Any event arrives on the topic the consumer reads: completed events,
\* failed_transaction events below and at the retry limit, an event of
\* another type and an event without transaction_id (0 stands for the
\* absent identifier, which the code tests for truth).
EventInputs ==
    {[event_type |-> "transaction", transaction_id |-> id,
      amount |-> 100000, status |-> "completed"] : id \in TxnIds}
    \cup {[event_type |-> "failed_transaction", transaction_id |-> MinTxnId,
           error_message |-> "db_error", retry_count |-> k]
             : k \in {MAX_RETRIES - 1, MAX_RETRIES}}
    \cup {[event_type |-> "refund", transaction_id |-> MinTxnId],
          [event_type |-> "transaction", transaction_id |-> 0]}

ReceiveEvent(event) ==
    /\ Len(completedTopic) < MaxEvents
    /\ completedTopic' = Append(completedTopic, event)
    /\ UNCHANGED <<dbVars, execVars, failedTopic, consumerVars>>

ConsumerStep ==
    \/ StartConsumer
    \/ EnterConsumeMessages
    \/ FetchMessage
    \/ ProcessMessage
    \/ CommitOffset
    \/ Rebalance

\* ---------------------------------------------------- specifications

\* Concurrent requests against the ledger.
Next == \E p \in Procs : ExecutorStep(p)

Spec == Init /\ [][Next]_vars

\* Concurrent requests, each of which keeps running: the event loop resumes
\* every coroutine whose awaited statement has returned or failed, and a
\* statement that waits for a lock is ended by the store.
SpecTerminating ==
    /\ Init
    /\ [][Next]_vars
    /\ \A p \in Procs : WF_vars(ExecutorRun(p))

\* Requests run one at a time: a request begins only while no other request
\* is between its first read and its answer.
Quiet(q) == pc[q] \in {"idle", "done"}

BeginTransferAlone(p, f, t, amount, currency) ==
    /\ \A q \in Procs \ {p} : Quiet(q)
    /\ BeginTransfer(p, f, t, amount, currency)

NextSerial ==
    \E p \in Procs :
        \/ \E req \in Requests :
              BeginTransferAlone(p, req[1], req[2], req[3], req[4])
        \/ ExecutorRun(p)

SpecSerial == Init /\ [][NextSerial]_vars

\* Requests at the daily ceiling: account 5, a checking account that holds
\* 3,000,000.00, is asked for 0.01 less than the ceiling of its class, for
\* the ceiling and for 0.01 more, to the business account 2.
CeilingRequests ==
    {<<5, 2, RegularDailyLimit + d, "ILS">> : d \in {-1, 0, 1}}

NextCeiling ==
    \E p \in Procs :
        \/ \E req \in CeilingRequests :
              BeginTransferAlone(p, req[1], req[2], req[3], req[4])
        \/ ExecutorRun(p)

SpecCeiling == Init /\ [][NextCeiling]_vars

\* Transfers between accounts 1 and 2, one at a time, with the account
\* endpoints called at any moment of a transfer.
AccountRequests == {<<1, 2, 100000, "ILS">>, <<2, 1, 100000, "ILS">>}

NextAccounts ==
    \/ \E p \in Procs :
          \/ \E req \in AccountRequests :
                BeginTransferAlone(p, req[1], req[2], req[3], req[4])
          \/ ExecutorRun(p)
    \/ AccountStep

SpecAccounts == Init /\ [][NextAccounts]_vars

\* The consumer alone, fed by a producer that sends the completed event of
\* one transfer after another.
NextConsumer == (\E id \in TxnIds : ProduceCompleted(id)) \/ ConsumerStep

SpecConsumer == Init /\ [][NextConsumer]_vars

\* The consumer alone, which keeps taking the steps it can take.
SpecConsumerLive ==
    /\ Init
    /\ [][NextConsumer]_vars
    /\ WF_vars(ConsumerStep)

\* The consumer with its shutdown: stop() may be called at any suspension
\* point of the service, the signal handler of main.py line 76 included.
NextStop ==
    \/ \E id \in TxnIds : ProduceCompleted(id)
    \/ ConsumerStep
    \/ Stop
    \/ ServiceStop
    \/ StoppedIterationEnds

SpecStop == Init /\ [][NextStop]_vars

\* The consumer fed with any event, each message delivered once.
NextIntake ==
    \/ \E event \in EventInputs : ReceiveEvent(event)
    \/ StartConsumer
    \/ EnterConsumeMessages
    \/ FetchMessage
    \/ ProcessMessage
    \/ CommitOffset

SpecIntake == Init /\ [][NextIntake]_vars

\* The whole pipeline: requests one at a time, the broker and the consumer,
\* each of which keeps taking the steps it can take.
NextPipeline == NextSerial \/ ConsumerStep

SpecPipeline ==
    /\ Init
    /\ [][NextPipeline]_vars
    /\ WF_vars(NextSerial)
    /\ WF_vars(ConsumerStep)

\* ------------------------------------------------------------ properties

\* The sum of f over the accounts in S.
RECURSIVE SumOver(_, _)
SumOver(f, S) ==
    IF S = {} THEN 0
    ELSE LET a == CHOOSE x \in S : TRUE
         IN  f[a] + SumOver(f, S \ {a})

\* What the completed rows among `rows` say was moved into account a, net.
RECURSIVE NetMovement(_, _)
NetMovement(rows, a) ==
    IF rows = {} THEN 0
    ELSE LET r == CHOOSE x \in rows : TRUE
             moved == IF r.status # "completed" THEN 0
                      ELSE (IF r.to_account_id = a THEN r.amount ELSE 0)
                           - (IF r.from_account_id = a THEN r.amount ELSE 0)
         IN  moved + NetMovement(rows \ {r}, a)

CompletedRows == {r \in ledger : r.status = "completed"}

\* C1: when the transfers run one at a time, the committed balances always
\* add up to the initial total, every completed row records a debit of
\* exactly its amount and a credit of exactly its amount, and every account
\* holds its initial balance plus what the completed rows moved.
C1_SerialTransfersConserve ==
    /\ SumOver(balance, AccountIds) = SumOver(InitBalance, AccountIds)
    /\ \A r \in CompletedRows :
          /\ r.from_balance_after = r.from_balance_before - r.amount
          /\ r.to_balance_after = r.to_balance_before + r.amount
    /\ \A a \in AccountIds : balance[a] = InitBalance[a] + NetMovement(ledger, a)

\* The scenario's transfer has completed: 1000.00 went from account 1 to
\* account 2.
C1_Witness ==
    /\ \E r \in CompletedRows :
          r.from_account_id = 1 /\ r.to_account_id = 2 /\ r.amount = 100000
    /\ balance[1] = InitBalance[1] - 100000
    /\ balance[2] = InitBalance[2] + 100000

\* C2: under every interleaving of concurrent transfers the committed
\* balances are those of a serial order: each account holds its initial
\* balance plus every credit and minus every debit of the completed rows,
\* none lost and none applied twice.
C2_ConcurrentTransfersSerializable ==
    \A a \in AccountIds :
        balance[a] = InitBalance[a] + NetMovement(CompletedRows, a)

\* The transfer ids of the events on a topic.
PublishedIds(topic) == {topic[i].transaction_id : i \in 1..Len(topic)}

\* C3: no committed balance is ever negative; no transfer whose amount
\* exceeds the source balance it read gets past validation; and the step
\* that rejects a request for insufficient funds leaves every balance and
\* the ledger as they were.
C3_NoOverdraft ==
    [][ /\ \A a \in AccountIds : balance[a] >= 0 /\ balance'[a] >= 0
        /\ \A p \in Procs :
              txn'[p] # NoTxn => txn'[p].amount <= txn'[p].from_balance_before
        /\ \A p \in Procs :
              (pc[p] = "idle" /\ pc'[p] = "done"
                  /\ response'.error = "insufficient_funds")
              => (balance' = balance /\ ledger' = ledger) ]_vars

\* Account 1 has paid 1000.00 out of its 1500.00 and a further transfer out
\* of it has been rejected for insufficient funds.
C3_Witness ==
    /\ response.outcome = "raised"
    /\ response.error = "insufficient_funds"
    /\ balance[1] = InitBalance[1] - 100000

\* C4: the step that makes a completed row durable is the step that makes
\* both of its balance writes durable, and nothing else touches a balance;
\* a row that is not completed comes with no balance change, and no
\* committed row is pending.
C4_StatusAndBalancesAtomic ==
    [][ /\ \A r \in ledger' \ ledger :
              IF r.status = "completed"
              THEN /\ balance'[r.from_account_id] = r.from_balance_after
                   /\ balance'[r.to_account_id] = r.to_balance_after
              ELSE balance' = balance
        /\ balance' # balance =>
              \E r \in ledger' \ ledger :
                  /\ r.status = "completed"
                  /\ balance' = [balance EXCEPT
                                   ![r.from_account_id] = r.from_balance_after,
                                   ![r.to_account_id] = r.to_balance_after]
        /\ \A r \in ledger' : r.status # "pending" ]_vars

\* A completed row is committed and both accounts hold the balances it
\* records, while another request has been rolled back.
C4_Witness ==
    /\ \E r \in CompletedRows :
          /\ balance[r.from_account_id] = r.from_balance_after
          /\ balance[r.to_account_id] = r.to_balance_after
          /\ balance[r.from_account_id] # InitBalance[r.from_account_id]
    /\ \E p \in Procs : pc[p] = "publish_failed"

\* C5: every event on the completed topic names a transfer whose completed
\* row is committed, with the amount of that row, and no transfer has two
\* completed events; a request that ended failed has no event there unless
\* its identifier is that of another, committed, transfer.
C5_PublishedOnlyAfterCommit ==
    /\ \A i \in 1..Len(completedTopic) :
          /\ \E r \in CompletedRows :
                /\ r.transaction_id = completedTopic[i].transaction_id
                /\ r.amount = completedTopic[i].amount
          /\ completedTopic[i].status = "completed"
          /\ \A j \in 1..Len(completedTopic) :
                completedTopic[j].transaction_id = completedTopic[i].transaction_id
                => j = i
    /\ \A p \in Procs :
          (pc[p] \in {"flush", "upd_from", "upd_to", "commit", "rollback",
                      "publish_failed"}
              /\ ~ \E r \in ledger : r.transaction_id = txn[p].transaction_id)
          => txn[p].transaction_id \notin PublishedIds(completedTopic)

\* A completed event is on the topic and another request has ended failed.
C5_Witness ==
    /\ Len(completedTopic) > 0
    /\ response.outcome = "raised"
    /\ response.transaction # NoTxn
    /\ response.transaction.transaction_id \notin PublishedIds(completedTopic)

\* C6: whatever happens to the publication that follows the commit, the
\* step leaves balances, account statuses and ledger as committed, and
\* execute_transfer returns the completed transaction, whose row is in the
\* ledger.
C6_PublishFailureHarmless ==
    [][ \A p \in Procs :
          (pc[p] = "publish" /\ pc'[p] # "publish")
          => /\ dbVars' = dbVars
             /\ txn[p].status = "completed"
             /\ txn[p] \in ledger'
             /\ pc'[p] = "done"
             /\ response' = Returned(txn[p]) ]_vars

\* execute_transfer has returned a completed transfer whose event never
\* reached the topic.
C6_Witness ==
    /\ response.outcome = "returned"
    /\ response.transaction \in CompletedRows
    /\ response.transaction.transaction_id \notin PublishedIds(completedTopic)

\* C10: a committed row never changes and never disappears, so a completed
\* row stays completed and a failed one failed; and the object a request
\* holds changes status only from pending to completed or failed and, while
\* still uncommitted, from completed to failed.
C10_StatusMonotonic ==
    [][ /\ \A r \in ledger : r \in ledger'
        /\ \A p \in Procs :
              (txn[p] # NoTxn /\ txn'[p] # NoTxn
                  /\ txn'[p].status # txn[p].status)
              => \/ txn[p].status = "pending"
                 \/ /\ txn[p].status = "completed"
                    /\ txn'[p].status = "failed"
                    /\ txn[p] \notin ledger ]_vars

\* A request that drew the identifier of a committed completed transfer has
\* gone through the error path and been marked failed; the committed row is
\* still completed.
C10_Witness ==
    /\ response.outcome = "raised"
    /\ response.transaction # NoTxn
    /\ response.transaction.status = "failed"
    /\ \E r \in CompletedRows :
          r.transaction_id = response.transaction.transaction_id

\* C7: whatever is redelivered, the side-effect sequence of a transfer is
\* dispatched successfully at most once, and a delivery that follows a
\* successful dispatch of the same transfer returns true and dispatches
\* nothing.
C7_DispatchedAtMostOnce ==
    /\ \A id \in TxnIds : effects[id].ok <= 1
    /\ lastResult.after_ok => (lastResult.success /\ ~ lastResult.dispatched)

\* A completed event was processed successfully, its offset commit was lost,
\* and the event has been delivered and handled again.
C7_Witness ==
    /\ lastResult.after_ok
    /\ rebalances > 0
    /\ effects[lastResult.transaction_id].ok = 1

\* C8: the committed offset moves past a message only when the processor
\* returned success for that message.
C8_CommitOnlyOnSuccess ==
    [][ committedOffset' > committedOffset => lastResult.success ]_vars

CommittedTransfer(id) ==
    \E r \in CompletedRows : r.transaction_id = id

\* C9: every transfer whose commit succeeded eventually has its completed
\* event handed to the Transaction Processor by a consumer that is running
\* (the first thing being reflected downstream takes), whatever happened to
\* the publication, and its side effects are never dispatched successfully
\* twice.
C9_EventuallyReflectedOnce ==
    \A id \in TxnIds :
        /\ CommittedTransfer(id)
              ~> (lastResult.transaction_id = id \/ cpc = "done")
        /\ [](effects[id].ok <= 1)

\* The arithmetic a Transaction record must satisfy.
RecordWellFormed(r) ==
    /\ r.from_balance_after = r.from_balance_before - r.amount
    /\ r.to_balance_after = r.to_balance_before + r.amount
    /\ r.amount > 0
    /\ r.from_account_id # r.to_account_id

\* C11: every Transaction object execute_transfer creates, and every row it
\* commits, has after = before - amount on the source, after = before +
\* amount on the destination, a positive amount and two different accounts;
\* when it is created its before-snapshots are the committed balances of its
\* two accounts, and they never change afterwards.
C11_RecordArithmetic ==
    [][ /\ \A r \in ledger' : RecordWellFormed(r)
        /\ \A p \in Procs :
              txn'[p] # NoTxn =>
                /\ RecordWellFormed(txn'[p])
                /\ IF txn[p] = NoTxn
                   THEN /\ txn'[p].from_balance_before
                              = balance[txn'[p].from_account_id]
                        /\ txn'[p].to_balance_before
                              = balance[txn'[p].to_account_id]
                   ELSE /\ txn'[p].from_balance_before = txn[p].from_balance_before
                        /\ txn'[p].to_balance_before = txn[p].to_balance_before
                        /\ txn'[p].amount = txn[p].amount ]_vars

\* A second transfer has been created after a first one moved the balances:
\* its snapshots are the moved balances, not the initial ones.
C11_Witness ==
    \E r \in CompletedRows :
        /\ r.from_balance_before # InitBalance[r.from_account_id]
        /\ r.to_balance_before # InitBalance[r.to_account_id]

\* C12: when a request fails after its Transaction row was flushed and
\* before its commit, the error path leaves the balances as committed and
\* leaves a committed row with the request's identifier and status failed.
C12_FlushedRowCommittedFailed ==
    [][ \A p \in Procs :
          (pc[p] = "rollback" /\ sess[p].flushed /\ pc'[p] = "publish_failed")
          => /\ balance' = balance
             /\ \E r \in ledger' :
                   /\ r.transaction_id = txn[p].transaction_id
                   /\ r.status = "failed" ]_vars

\* C13: no request fails because the identifier it drew is already in the
\* store: none is unwinding with, or has been answered with, the
\* duplicate-identifier error.
C13_CollisionNotFatal ==
    /\ \A p \in Procs : err[p] # "duplicate_id"
    /\ response.error # "duplicate_id"

\* The failed_transaction event the consumer owes a delivery of `event`
\* whose processing failed.
ExpectedFailedEvent(event) ==
    [event_type |-> "failed_transaction",
     transaction_id |-> event.transaction_id,
     error_message |-> "Processing failed",
     retry_count |-> (IF "retry_count" \in DOMAIN event
                      THEN event.retry_count ELSE 0) + 1,
     original_event |-> event]

\* A message is handled by this step.
HandlesMessage == cpc = "process" /\ cpc' = "commit"

\* C14 as stated: a delivery whose processing fails puts exactly one
\* failed_transaction event on the failed topic, with the incoming
\* retry_count (0 if absent) plus 1, the incoming transaction_id and the
\* incoming payload as original_event; a delivery that succeeds puts none.
C14_ExactlyOneFailedEvent ==
    [][ HandlesMessage =>
          failedTopic' = IF lastResult'.success THEN failedTopic
                         ELSE Append(failedTopic, ExpectedFailedEvent(cur)) ]_vars

\* C14 amended: a delivery whose processing fails puts at most one event on
\* the failed topic: exactly one, with that content, when the send to the
\* failed topic goes through, and none when that send fails; a delivery that
\* succeeds puts none. The event built for an incoming event that carries a
\* retry_count k carries k + 1.
C14_AtMostOneFailedEvent ==
    /\ \A k \in 0..MAX_RETRIES :
          LET incoming == [event_type |-> "failed_transaction",
                           transaction_id |-> MinTxnId, retry_count |-> k]
          IN  /\ ConsumerFailedEvent(incoming, "Processing failed")
                    = ExpectedFailedEvent(incoming)
              /\ ConsumerFailedEvent(incoming, "Processing failed").retry_count
                    = k + 1
    /\ [][ HandlesMessage =>
             IF lastResult'.success THEN failedTopic' = failedTopic
             ELSE \/ failedTopic' = Append(failedTopic, ExpectedFailedEvent(cur))
                  \/ failedTopic' = failedTopic ]_vars

\* The dispatch of a completed event failed and its failed_transaction event
\* is on the failed topic with retry_count 1 and the payload as delivered.
C14_Witness ==
    /\ ~ lastResult.success
    /\ lastResult.dispatched
    /\ Len(failedTopic) > 0
    /\ failedTopic[Len(failedTopic)].retry_count = 1
    /\ failedTopic[Len(failedTopic)].original_event = cur
    /\ failedTopic[Len(failedTopic)].transaction_id = lastResult.transaction_id

\* C15: a started consumer never leaves its loop, whatever happened to the
\* messages it handled: handling a message always leads to the offset
\* commit and the offset commit, done or failed, back to the fetch, with
\* running still true; and at the fetch the next message of the topic, if
\* there is one, can be taken.
C15_LoopSurvivesFailures ==
    /\ consumerStarted /\ cpc # "init" /\ cpc # "start"
          => (cpc \in {"poll", "process", "commit"} /\ running)
    /\ (consumerStarted /\ cpc = "poll" /\ position < Len(completedTopic))
          => ENABLED FetchMessage

\* After a message whose dispatch failed, whose failed_transaction event
\* could not be sent and whose offset commit failed, the consumer is
\* handling the next message.
C15_Witness ==
    /\ cpc = "commit"
    /\ lastResult.transaction_id = MinTxnId + 1
    /\ effects[MinTxnId].ok = 0
    /\ effects[MinTxnId].sequence_done = 0
    /\ failedTopic = <<>>
    /\ committedOffset = 0
    /\ position = 2
    /\ rebalances = 0

\* C16: a consumer that found no broker at start stays in consume_messages:
\* it never reaches the end of it (nothing here stops the service).
C16_IdleWithoutBroker ==
    cpc = "done" => consumerStarted

ShapeErrors ==
    {"bad_account_id", "same_account", "amount_not_positive",
     "amount_over_maximum"}

\* A request the shape check must refuse.
Malformed(f, t, amount) ==
    amount <= 0 \/ f = t \/ f <= 0 \/ t <= 0 \/ amount > SystemMaxAmount

\* C17: the shape check refuses exactly the requests with amount <= 0, equal
\* ids, an id <= 0 or an amount above 10,000,000.00; no Transaction object or
\* row ever carries such a request; and the step that answers a request with
\* a shape error creates no Transaction and leaves accounts, ledger,
\* sessions and both topics untouched.
C17_MalformedRejectedEarly ==
    [][ /\ \A req \in Requests :
              Malformed(req[1], req[2], req[3])
                  <=> RequestShapeError(req[1], req[2], req[3]) \in ShapeErrors
        /\ \A r \in (ledger' \cup {txn'[p] : p \in Procs}) \ {NoTxn} :
              ~ Malformed(r.from_account_id, r.to_account_id, r.amount)
        /\ \A p \in Procs :
              (pc[p] = "idle" /\ pc'[p] = "done"
                  /\ response'.error \in ShapeErrors)
              => /\ response'.outcome = "raised"
                 /\ response'.transaction = NoTxn
                 /\ UNCHANGED <<dbVars, brokerVars, txn, sess>> ]_vars

\* A request above the system ceiling has been refused and nothing exists
\* but the initial accounts.
C17_Witness ==
    /\ response.error = "amount_over_maximum"
    /\ \E p \in Procs : pc[p] = "done"
    /\ balance = InitBalance
    /\ ledger = {}

GuardErrors == {"not_found", "inactive", "insufficient_funds"}

\* The ids and amounts the Account Guard is asked about; 0 is the absent
\* required amount.
GuardIds == AccountIds \cup RequestIds
GuardAmounts == {req[3] : req \in Requests} \cup {0}

\* C18: validate_account_for_transfer answers not-found for an id that names
\* no account, else inactive-account for a status of inactive, frozen or
\* closed, else insufficient-funds when a required amount is given and the
\* balance is below it, else it returns the account. A request is refused
\* for insufficient funds only when the source balance is below the amount,
\* whatever the destination holds, and the step that refuses a request with
\* one of these errors changes no account, row, session or Transaction.
C18_AccountGuard ==
    [][ /\ \A a \in GuardIds, required \in GuardAmounts :
              ValidateAccountForTransfer(a, required) =
                  IF a \notin AccountIds THEN "not_found"
                  ELSE IF acctStatus[a] \in {"inactive", "frozen", "closed"}
                      THEN "inactive"
                  ELSE IF required > 0 /\ balance[a] < required
                      THEN "insufficient_funds"
                  ELSE ""
        /\ \A req \in Requests :
              TransferError(req[1], req[2], req[3], req[4]) = "insufficient_funds"
                  => balance[req[1]] < req[3]
        /\ \A p \in Procs :
              (pc[p] = "idle" /\ pc'[p] = "done" /\ response'.error \in GuardErrors)
              => /\ response'.transaction = NoTxn
                 /\ UNCHANGED <<dbVars, brokerVars, txn, sess>> ]_vars

\* A transfer of 1000.00 has been validated and completed into an account
\* that held less than 1000.00.
C18_Witness ==
    /\ response.outcome = "returned"
    /\ response.transaction.to_balance_before < response.transaction.amount
    /\ response.transaction \in CompletedRows

\* The request passes the shape check and both Account Guard checks.
PassesGuard(req) ==
    /\ RequestShapeError(req[1], req[2], req[3]) = ""
    /\ ValidateAccountForTransfer(req[1], req[3]) = ""
    /\ ValidateAccountForTransfer(req[2], 0) = ""

SameCurrency(f, t, currency) ==
    AccountCurrency[f] = currency /\ AccountCurrency[t] = currency

\* C19: a request that reaches the currency check is aborted with the
\* currency-mismatch error exactly when the source's or the destination's
\* currency differs from the requested one; no Transaction object or row has
\* a currency other than that of both its accounts; and the step that aborts
\* creates no Transaction and changes no balance or row.
C19_CurrencyMismatchAborts ==
    [][ /\ \A req \in Requests :
              PassesGuard(req) =>
                 (TransferError(req[1], req[2], req[3], req[4]) = "currency_mismatch"
                     <=> ~ SameCurrency(req[1], req[2], req[4]))
        /\ \A r \in (ledger' \cup {txn'[p] : p \in Procs}) \ {NoTxn} :
              SameCurrency(r.from_account_id, r.to_account_id, r.currency)
        /\ \A p \in Procs :
              (pc[p] = "idle" /\ pc'[p] = "done"
                  /\ response'.error = "currency_mismatch")
              => /\ response'.outcome = "raised"
                 /\ response'.transaction = NoTxn
                 /\ UNCHANGED <<dbVars, brokerVars, txn, sess>> ]_vars

\* After a completed transfer, a request naming another currency than its
\* accounts' has been aborted.
C19_Witness ==
    /\ response.outcome = "raised"
    /\ response.error = "currency_mismatch"
    /\ CompletedRows # {}

\* The daily ceiling of each account class, in 0.01 units.
ClassCeiling(class) ==
    IF class = "vip" THEN 100000000
    ELSE IF class = "business" THEN 50000000
    ELSE 10000000

\* C20: a request that reaches the ceiling check is rejected with the
\* ceiling-exceeded error exactly when its amount exceeds the ceiling of the
\* source account's class (1,000,000.00 vip, 500,000.00 business, 100,000.00
\* otherwise); no Transaction object or row, completed or not, has an amount
\* above that ceiling; and the step that rejects creates no Transaction and
\* changes no balance or row.
C20_DailyCeilingRejects ==
    [][ /\ \A req \in Requests :
              (PassesGuard(req) /\ SameCurrency(req[1], req[2], req[4])) =>
                 (TransferError(req[1], req[2], req[3], req[4]) = "limit_exceeded"
                     <=> req[3] > ClassCeiling(AccountType[req[1]]))
        /\ \A r \in (ledger' \cup {txn'[p] : p \in Procs}) \ {NoTxn} :
              r.amount <= ClassCeiling(AccountType[r.from_account_id])
        /\ \A p \in Procs :
              (pc[p] = "idle" /\ pc'[p] = "done"
                  /\ response'.error = "limit_exceeded")
              => /\ response'.outcome = "raised"
                 /\ response'.transaction = NoTxn
                 /\ UNCHANGED <<dbVars, brokerVars, txn, sess>> ]_vars

\* The transfer of 2,000,000.00 out of the checking account that holds
\* 3,000,000.00 has been rejected for exceeding the ceiling; no row exists.
C20_Witness ==
    /\ response.outcome = "raised"
    /\ response.error = "limit_exceeded"
    /\ ledger = {}
    /\ balance = InitBalance

\* C21: send_transaction_event never raises. With the producer never started
\* or with a failing send it leaves the topic as it was and returns, and the
\* caller goes on exactly as after a successful send: on either path of
\* execute_transfer the step that publishes ends the call with the answer
\* that was due before it (the transaction returned, or the original error
\* raised), whether or not the event reached the topic.
C21_SendNeverRaises ==
    [][ /\ \A outcome \in {"no_producer", "send_error"} :
              /\ SendTransactionEvent(completedTopic, NoEvent, outcome) = completedTopic
              /\ SendTransactionEvent(failedTopic, NoEvent, outcome) = failedTopic
        /\ \A p \in Procs :
              /\ (pc[p] = "publish" /\ pc'[p] # "publish")
                 => /\ completedTopic' \in
                          {completedTopic, Append(completedTopic, ToKafkaEvent(txn[p]))}
                    /\ pc'[p] = "done"
                    /\ response' = Returned(txn[p])
                    /\ err' = err
              /\ (pc[p] = "publish_failed" /\ pc'[p] # "publish_failed")
                 => /\ failedTopic' \in {failedTopic, Append(failedTopic, FailedEvent(p))}
                    /\ pc'[p] = "done"
                    /\ response' = Raised(err[p], txn[p])
                    /\ response'.error \notin PublishOutcomes ]_vars

\* Both paths have run without a producer: a transfer was committed and
\* returned, a later one failed in the store and its error was raised, and
\* neither topic holds an event.
C21_Witness ==
    /\ response.outcome = "raised"
    /\ response.error = "db_error"
    /\ response.transaction # NoTxn
    /\ CompletedRows # {}
    /\ completedTopic = <<>>
    /\ failedTopic = <<>>

\* C22: a call that fails before its commit leaves no balance changed. A
\* request rejected by validation changes no balance and no row and raises;
\* a request that fails in the store after its object was built unwinds
\* without changing a balance, and when its error is raised both of its
\* accounts hold the balances it read at the start of the call.
C22_FailureBeforeCommitLeavesBalances ==
    [][ \A p \in Procs :
          /\ (pc[p] = "idle" /\ pc'[p] = "done")
             => /\ response'.outcome = "raised"
                /\ dbVars' = dbVars
          /\ (pc[p] \in {"flush", "upd_from", "upd_to", "commit"}
                 /\ pc'[p] = "rollback")
             => /\ balance' = balance
                /\ balance[txn[p].from_account_id] = txn[p].from_balance_before
                /\ balance[txn[p].to_account_id] = txn[p].to_balance_before
          /\ (pc[p] = "rollback" /\ pc'[p] # "rollback")
             => /\ balance' = balance
                /\ pc'[p] = "publish_failed"
          /\ (pc[p] = "publish_failed" /\ pc'[p] # "publish_failed")
             => /\ balance' = balance
                /\ response'.outcome = "raised"
                /\ response'.error = err[p]
                /\ balance'[txn[p].from_account_id] = txn[p].from_balance_before
                /\ balance'[txn[p].to_account_id] = txn[p].to_balance_before ]_vars

\* A transfer of a positive amount failed in the store: it is
\* unwinding, and every balance is what it was at the start.
C22_Witness ==
    \E p \in Procs :
        /\ pc[p] = "publish_failed"
        /\ err[p] = "db_error"
        /\ txn[p].to_balance_after # txn[p].to_balance_before
        /\ balance = InitBalance

\* The event that carries no transaction_id.
NoIdEvent == [event_type |-> "transaction", transaction_id |-> 0]

\* C23: for an event without a transfer identifier process_transaction_event
\* returns false, dispatches nothing and returns the idempotency set as it
\* was, whatever the set holds; and the consumer step that handles such an
\* event leaves the set and the side-effect counts unchanged.
C23_MissingIdRejected ==
    /\ \A done \in SUBSET TxnIds : \A outcome \in DispatchOutcomes :
          LET r == ProcessTransactionEvent(NoIdEvent, done, outcome)
          IN  ~ r.success /\ ~ r.dispatched /\ ~ r.sequence_done
                 /\ r.processed = done
    /\ [][ (HandlesMessage /\ cur.transaction_id = 0)
             => /\ ~ lastResult'.success
                /\ ~ lastResult'.dispatched
                /\ processed' = processed
                /\ effects' = effects ]_vars

\* After a transfer's event was processed and recorded, an event without
\* identifier has been handled and rejected.
C23_Witness ==
    /\ cpc = "commit"
    /\ cur = NoIdEvent
    /\ lastResult.transaction_id = 0
    /\ ~ lastResult.success
    /\ processed # {}

C25_FailedEventClassified ==
    /\ \A k \in 0..(MAX_RETRIES + 1) : \A outcome \in DispatchOutcomes :
          LET r == ProcessFailedTransaction(
                      [event_type |-> "failed_transaction",
                       transaction_id |-> MinTxnId, retry_count |-> k], outcome)
          IN  /\ r.success
              /\ r.verdict = "retry" <=> k < MAX_RETRIES
              /\ r.verdict = "permanent" <=> k >= MAX_RETRIES
    /\ [][ (HandlesMessage /\ cur.event_type = "failed_transaction"
                /\ cur.transaction_id \notin processed)
             => /\ lastResult'.success
                /\ lastResult'.dispatched
                /\ lastResult'.verdict =
                      (IF RetryCount(cur) < MAX_RETRIES THEN "retry"
                       ELSE "permanent")
                /\ processed' = processed \cup {cur.transaction_id}
                /\ failedTopic' = failedTopic ]_vars

\* A failed_transaction event whose retry_count is MAX_RETRIES has been
\* dispatched: it was classified as permanently failed and the dispatch
\* succeeded.
C25_Witness ==
    /\ cpc = "commit"
    /\ cur.event_type = "failed_transaction"
    /\ RetryCount(cur) = MAX_RETRIES
    /\ lastResult.verdict = "permanent"
    /\ lastResult.success

\* What an account has sent in completed transfers.
RECURSIVE SentAmount(_)
SentAmount(rows) ==
    IF rows = {} THEN 0
    ELSE LET r == CHOOSE x \in rows : TRUE
         IN  r.amount + SentAmount(rows \ {r})

SentBy(a) == SentAmount({r \in CompletedRows : r.from_account_id = a})

\* C26: check_daily_transfer_limits rejects exactly the amounts above the
\* ceiling of the account's class (1,000,000.00 vip, 500,000.00 business,
\* 100,000.00 otherwise), so the ceiling itself passes; a request that
\* reaches the check is answered by the check on its source account alone,
\* whatever the class of the destination; and the answer is the same
\* whatever the source has already sent.
C26_FixedCeilingOnSource ==
    [][ /\ \A a \in AccountIds : \A d \in {-1, 0, 1} :
              CheckDailyTransferLimits(a, ClassCeiling(AccountType[a]) + d)
                 = (IF d > 0 THEN "limit_exceeded" ELSE "")
        /\ \A req \in CeilingRequests :
              /\ TransferError(req[1], req[2], req[3], req[4])
                    \in {"", "limit_exceeded", "insufficient_funds"}
              /\ balance[req[1]] >= req[3]
                    => TransferError(req[1], req[2], req[3], req[4])
                          = CheckDailyTransferLimits(req[1], req[3])
        /\ \A p \in Procs :
              /\ (pc[p] = "idle" /\ pc'[p] = "flush")
                 => txn'[p].amount <= ClassCeiling(AccountType[txn'[p].from_account_id])
              /\ (pc[p] = "idle" /\ pc'[p] = "done")
                 => /\ response'.outcome = "raised"
                    /\ response'.error = "limit_exceeded"
                    /\ dbVars' = dbVars ]_vars

\* Account 5 has sent twice the ceiling of its class: a transfer of exactly
\* the ceiling was completed, and then a second one was accepted, completed
\* and returned.
C26_Witness ==
    /\ SentBy(5) = 2 * ClassCeiling(AccountType[5])
    /\ \A r \in CompletedRows : r.amount = ClassCeiling(AccountType[5])
    /\ response.outcome = "returned"
    /\ response.transaction.from_balance_before
          = InitBalance[5] - ClassCeiling(AccountType[5])

\* C27: update_account_balance with a negative new balance fails with the
\* negative-balance error and leaves the account's balance as it was; with
\* a new balance of zero or more it sets the balance to exactly that value.
\* The write stays inside the open transaction: the step that makes it
\* changes no committed balance, and the commit makes exactly the written
\* values durable.
C27_UpdateAccountBalance ==
    [][ /\ \A old \in {0, 100000} : \A new \in {-100000, -1, 0, 1, 200000} :
              /\ new < 0 => UpdateAccountBalance(old, new)
                               = [error |-> "negative_balance", balance |-> old]
              /\ new >= 0 => UpdateAccountBalance(old, new)
                               = [error |-> "", balance |-> new]
        /\ \A p \in Procs :
              /\ (pc[p] = "upd_from" /\ pc'[p] = "upd_to")
                 => /\ txn[p].from_balance_after >= 0
                    /\ sess'[p].wrote_from
                    /\ balance' = balance
              /\ (pc[p] = "upd_to" /\ pc'[p] = "commit")
                 => /\ txn[p].to_balance_after >= 0
                    /\ sess'[p].wrote_to
                    /\ balance' = balance
              /\ (pc[p] = "commit" /\ pc'[p] = "publish")
                 => /\ balance'[txn[p].from_account_id] = txn[p].from_balance_after
                    /\ balance'[txn[p].to_account_id] = txn[p].to_balance_after
                    /\ \A a \in AccountIds \ {txn[p].from_account_id,
                                                txn[p].to_account_id} :
                          balance'[a] = balance[a] ]_vars

\* Both balances of a transfer have been written in its open transaction,
\* the source's down to zero or more, and the committed balances are still
\* the ones it read.
C27_Witness ==
    \E p \in Procs :
        /\ pc[p] = "commit"
        /\ sess[p].wrote_from /\ sess[p].wrote_to
        /\ txn[p].from_balance_after < txn[p].from_balance_before
        /\ balance[txn[p].from_account_id] = txn[p].from_balance_before
        /\ balance[txn[p].to_account_id] = txn[p].to_balance_before

\* C28: the identifier of an event enters the idempotency set in the step
\* that handles it exactly when that step dispatched the event and the
\* dispatch succeeded; after a dispatch that failed or raised the set is as
\* it was, so every identifier in the set has had a successful dispatch,
\* and a delivery of an event whose identifier is not in the set, a
\* redelivery after a failed dispatch included, is dispatched.
C28_RecordedOnlyOnSuccess ==
    /\ [](\A id \in processed : effects[id].ok >= 1)
    /\ [][ HandlesMessage =>
             /\ processed' =
                   (IF lastResult'.dispatched /\ lastResult'.success
                    THEN processed \cup {cur.transaction_id} ELSE processed)
             /\ cur.transaction_id \notin processed => lastResult'.dispatched
             /\ cur.transaction_id \in processed => ~ lastResult'.dispatched ]_vars

\* The dispatch of a transfer's event failed, the event went to the failed
\* topic and was not recorded; after a rebalance the same event was
\* delivered again, dispatched again, and this time succeeded.
C28_Witness ==
    /\ cpc = "commit"
    /\ rebalances = 1
    /\ lastResult.transaction_id = cur.transaction_id
    /\ lastResult.dispatched
    /\ lastResult.success
    /\ effects[cur.transaction_id].ok = 1
    /\ \E i \in 1..Len(failedTopic) :
          failedTopic[i].original_event = cur

\* C29: the Transaction row is inserted and flushed before either balance
\* is written: a request writes a balance only with its row flushed, and
\* the flush of an identifier that a committed row already carries raises
\* with no balance written by the request. From that violation to the
\* answer no balance and no row changes, so the row that was there keeps
\* every field.
C29_DuplicateBeforeBalances ==
    [][ \A p \in Procs :
          /\ (sess[p].wrote_from \/ sess[p].wrote_to) => sess[p].flushed
          /\ pc[p] \in {"upd_from", "upd_to"} => sess[p].flushed
          /\ (pc[p] = "flush" /\ pc'[p] # "flush"
                 /\ \E r \in ledger : r.transaction_id = txn[p].transaction_id)
             => /\ pc'[p] = "rollback"
                /\ err'[p] \in {"duplicate_id", "db_error"}
                /\ ~ sess'[p].wrote_from /\ ~ sess'[p].wrote_to
                /\ dbVars' = dbVars
          /\ (err[p] = "duplicate_id" /\ pc'[p] # pc[p])
             => /\ pc[p] \in {"rollback", "publish_failed"}
                /\ ~ sess[p].wrote_from /\ ~ sess[p].wrote_to
                /\ balance' = balance
                /\ ledger' = ledger ]_vars

\* A request that drew the identifier of a completed transfer has been
\* answered with the duplicate-identifier error: the balances are those the
\* completed transfer left and its row is in the store as it was written.
C29_Witness ==
    /\ response.outcome = "raised"
    /\ response.error = "duplicate_id"
    /\ \E r \in CompletedRows :
          /\ r.transaction_id = response.transaction.transaction_id
          /\ balance[r.from_account_id] = r.from_balance_after
          /\ balance[r.to_account_id] = r.to_balance_after
          /\ ledger = {r}

\* The requests that have been answered.
Answered == {p \in Procs : pc[p] = "done"}

\* C30: the executor emits at most one event per transfer attempt. An event
\* reaches a topic only in the step that ends an attempt: a completed event
\* only at the end of an attempt whose transfer is committed as completed,
\* a failed event only at the end of an attempt that failed, one event and
\* on one topic; an attempt that has ended takes no further step, so the
\* two topics together never hold more events than attempts have ended.
C30_AtMostOneEventPerAttempt ==
    /\ [](Len(completedTopic) + Len(failedTopic) <= Cardinality(Answered))
    /\ [][ /\ \A p \in Procs : pc[p] = "done" => pc'[p] = "done"
           /\ completedTopic' # completedTopic
                 => \E p \in Procs :
                       /\ pc[p] = "publish" /\ pc'[p] = "done"
                       /\ txn[p].status = "completed" /\ txn[p] \in ledger
                       /\ completedTopic' =
                             Append(completedTopic, ToKafkaEvent(txn[p]))
                       /\ failedTopic' = failedTopic
           /\ failedTopic' # failedTopic
                 => \E p \in Procs :
                       /\ pc[p] = "publish_failed" /\ pc'[p] = "done"
                       /\ txn[p].status = "failed"
                       /\ failedTopic' = Append(failedTopic, FailedEvent(p))
                       /\ completedTopic' = completedTopic ]_vars

\* Two attempts have ended, one committed and one failed, and each topic
\* holds exactly the one event of its attempt.
C30_Witness ==
    /\ Cardinality(Answered) = 2
    /\ Len(completedTopic) = 1
    /\ Len(failedTopic) = 1
    /\ completedTopic[1].transaction_id \in {r.transaction_id : r \in CompletedRows}
    /\ failedTopic[1].retry_count = 0

\* A request is inside execute_transfer.
Running(p) == pc[p] \notin {"idle", "done"}

\* C31: every call of execute_transfer ends, and ends in one of two ways.
\* It returns its transaction, whose completed row is committed together
\* with both balance writes; or it raises, and from its first statement to
\* its answer it has made no row and no balance durable. A call that has
\* ended holds no open transaction and no object, and the only step of a
\* call that changes a balance is its commit, which writes both.
C31_ExactlyOneOutcome ==
    /\ [](\A p \in Procs : pc[p] = "done" => (sess[p] = NoSession /\ txn[p] = NoTxn))
    /\ [][ \A p \in Procs :
             /\ (Running(p) /\ pc'[p] = "done")
                => \/ /\ pc[p] = "publish"
                      /\ response' = Returned(txn[p])
                      /\ txn[p].status = "completed" /\ txn[p] \in ledger
                   \/ /\ pc[p] = "publish_failed"
                      /\ response' = Raised(err[p], txn[p])
                      /\ txn[p] \notin ledger
             /\ (Running(p) /\ pc'[p] # pc[p] /\ pc[p] # "commit")
                => (balance' = balance /\ ledger' = ledger)
             /\ (pc[p] = "commit" /\ pc'[p] # "commit")
                => \/ /\ pc'[p] = "publish"
                      /\ balance'[txn[p].from_account_id] = txn[p].from_balance_after
                      /\ balance'[txn[p].to_account_id] = txn[p].to_balance_after
                      /\ txn[p] \in ledger'
                   \/ /\ pc'[p] = "rollback"
                      /\ balance' = balance /\ ledger' = ledger
             /\ (pc[p] = "publish" => pc'[p] \in {"publish", "done"})
             /\ (pc[p] = "rollback" => pc'[p] \in {"rollback", "publish_failed"}) ]_vars
    /\ \A p \in Procs : Running(p) ~> (pc[p] = "done")

\* Every request has ended: one call returned its committed transfer, and
\* another, which failed at its commit, raised with nothing durable.
C31_Witness ==
    /\ \A p \in Procs : pc[p] = "done"
    /\ response.outcome = "raised"
    /\ response.error = "db_error"
    /\ response.transaction.status = "failed"
    /\ Cardinality(CompletedRows) = 1
    /\ \A a \in AccountIds :
          balance[a] = InitBalance[a] + NetMovement(CompletedRows, a)

FailedEventsOf(id) ==
    {i \in 1..Len(failedTopic) : failedTopic[i].transaction_id = id}

\* C34: the consumer never puts on the failed topic an event whose
\* retry_count exceeds MAX_RETRIES, nor more than MAX_RETRIES events for one
\* transfer; and a transfer whose event never has a successful dispatch
\* and has been routed to the failed topic is eventually classified as
\* permanently failed.
C34_FailureRoutingBounded ==
    /\ [](\A i \in 1..Len(failedTopic) : failedTopic[i].retry_count <= MAX_RETRIES)
    /\ [](\A id \in TxnIds : Cardinality(FailedEventsOf(id)) <= MAX_RETRIES)
    /\ \A id \in TxnIds :
          ([](effects[id].ok = 0) /\ <>(FailedEventsOf(id) # {}))
             => <>(lastResult.transaction_id = id
                     /\ lastResult.verdict = "permanent")

\* C35: no committed row is pending: every row in the store is completed
\* or failed. A pending Transaction exists only as the object of a request
\* that has not yet reached its commit or is unwinding, and the row such a
\* request has flushed is in its open transaction only, not in the store.
C35_NoPendingRowCommitted ==
    /\ \A r \in ledger : r.status \in {"completed", "failed"}
    /\ \A p \in Procs :
          (txn[p] # NoTxn /\ txn[p].status = "pending")
             => /\ pc[p] \in {"flush", "upd_from", "upd_to", "rollback"}
                /\ txn[p] \notin ledger
    /\ \A p \in Procs :
          pc[p] \in {"commit", "publish"} => txn[p].status = "completed"

\* A request has flushed its pending row and written one balance in its
\* open transaction, while the store holds the completed row of an earlier
\* transfer.
C35_Witness ==
    /\ ledger # {}
    /\ \E p \in Procs :
          /\ sess[p].flushed /\ sess[p].wrote_from
          /\ txn[p].status = "pending"
          /\ \A r \in ledger : r.transaction_id # txn[p].transaction_id

\* C36: when execute_transfer returns, with no other transfer running, the
\* transaction it returns is completed, its row is in the store and the
\* committed balances of its two accounts are the from_balance_after and
\* to_balance_after it records. When it raises, the attempt has committed
\* nothing: its session never committed a row, the store holds the rows it
\* held before the raising step, and the transaction of the answer, if
\* any, is not completed.
C36_ReturnMeansCommitted ==
    [][ \A p \in Procs :
          /\ (Running(p) /\ pc'[p] = "done" /\ response'.outcome = "returned")
             => /\ response'.transaction = txn[p]
                /\ response'.transaction.status = "completed"
                /\ response'.transaction \in ledger'
                /\ balance'[txn[p].from_account_id] = txn[p].from_balance_after
                /\ balance'[txn[p].to_account_id] = txn[p].to_balance_after
          /\ (Running(p) /\ pc'[p] = "done" /\ response'.outcome = "raised")
             => /\ ~ sess[p].persistent
                /\ ledger' = ledger
                /\ response'.transaction.status = "failed"
                /\ response'.transaction \notin ledger'
          /\ (pc[p] = "idle" /\ pc'[p] = "done")
             => /\ response'.outcome = "raised"
                /\ response'.transaction = NoTxn
                /\ ledger' = ledger
          /\ pc[p] \in {"rollback", "publish_failed"} => ~ sess[p].persistent ]_vars

\* The second transfer out of account 1 has returned: the account, which
\* held 1500.00, holds what the returned transaction records after the two
\* transfers, and so does the destination.
C36_Witness ==
    /\ response.outcome = "returned"
    /\ response.transaction.status = "completed"
    /\ Cardinality(CompletedRows) = 2
    /\ balance[response.transaction.from_account_id]
          = response.transaction.from_balance_after
    /\ balance[response.transaction.to_account_id]
          = response.transaction.to_balance_after

\* C37: the failed_transaction event an attempt emits carries the
\* identifier of that attempt, which is not the identifier of a completed
\* row of another transfer, and the step that emits it changes no row.
C37_FailedEventNamesOnlyItsAttempt ==
    [][ \A p \in Procs :
          (pc[p] = "publish_failed" /\ failedTopic' # failedTopic)
          => /\ failedTopic'[Len(failedTopic')].transaction_id
                   = txn[p].transaction_id
             /\ ~ \E r \in CompletedRows :
                     r.transaction_id = txn[p].transaction_id
             /\ ledger' = ledger ]_vars

\* C38: the idempotency key is the identifier alone. Whatever the type of
\* an event, once its handling succeeded its identifier is in the set; and
\* an event whose identifier is in the set, whatever its type, returns true
\* with no dispatch, no side effect and nothing sent to the failed topic.
\* So after a failed_transaction event for X the side-effect sequence of
\* the completed event for X never runs.
C38_KeyIsIdentifierAlone ==
    [][ HandlesMessage =>
          /\ lastResult'.success => cur.transaction_id \in processed'
          /\ cur.transaction_id \in processed
                => /\ lastResult'.success
                   /\ ~ lastResult'.dispatched
                   /\ processed' = processed
                   /\ effects' = effects
                   /\ failedTopic' = failedTopic ]_vars

\* The failed_transaction event of a transfer was processed first; the
\* completed event of the same transfer, delivered after it, returned true
\* without a dispatch, and its side effects have never run.
C38_Witness ==
    /\ cpc = "commit"
    /\ position = 2
    /\ completedTopic[1].event_type = "failed_transaction"
    /\ cur.event_type = "transaction"
    /\ cur.transaction_id = completedTopic[1].transaction_id
    /\ lastResult.success
    /\ ~ lastResult.dispatched
    /\ effects[cur.transaction_id].sequence_done = 0

\* C39: whenever the consumer commits the offset of a message, the
\* processor returned success for that message or a failed_transaction
\* event carrying it is on the failed topic.
C39_NoMessageSilentlyLost ==
    [][ (cpc = "commit" /\ committedOffset' > committedOffset)
          => \/ lastResult.success
             \/ \E i \in 1..Len(failedTopic) :
                   failedTopic[i].original_event = cur ]_vars

\* C40: once stop() has been called the flag running stays False,
\* consume_messages does not set it back, and a message fetched after the
\* stop is dropped: it is not processed and no offset is committed for it.
C40_StopIsFinal ==
    /\ [](stopped => ~ running)
    /\ [][(stopped /\ position' = position + 1)
            => (cpc' = "done"
                /\ UNCHANGED <<processed, effects, committedOffset>>)]_vars

====
